---- MODULE Spec2Model ----
\* Order service of ecommerce-microservices: the order status state machine
\* (service.UpdateOrderStatus), the transactional order store
\* (postgresRepository) and the workers that call them concurrently.
EXTENDS Integers, Sequences, FiniteSets, TLC

\* ---------------------------------------------------------------- bounds
MaxClock == 2
MaxOrders == 2

\* the request workers (goroutines of the HTTP server)
Workers == {"w1", "w2"}

\* ------------------------------------------------------------ data model
Nil == 0

StatusNew == "NEW"
StatusProcessing == "PROCESSING"
StatusPaid == "PAID"
StatusShipped == "SHIPPED"
StatusDelivered == "DELIVERED"
StatusCancelled == "CANCELLED"

Statuses ==
    {StatusNew, StatusProcessing, StatusPaid, StatusShipped, StatusDelivered, StatusCancelled}

\* Go zero value of Order (without its OrderItems)
NilOrder ==
    [id |-> Nil, user_id |-> Nil, status |-> "", total_amount |-> 0,
     shipping_address_text |-> "", created_at |-> 0, updated_at |-> 0]

Users == {201, 202}

PresetIds == {101}

\* ids that callers of the repository make up for the orders they create
CallerIds == {101, 102}

Item(p, q, c) == [product_id |-> p, quantity |-> q, price_per_unit |-> c]

\* errors a call returns
ErrNone == "nil"
ErrOrderNotFound == "order not found"
ErrInvalidTransition == "invalid status transition"
ErrValidation == "validation"
ErrStorage == "storage"
ErrUniqueViolation == "unique violation"
ErrDuplicateOrderID == "order with this ID already exists"
\* errors of the sqlx repository behind handlers.OrderHandler
ErrNoRows == "sql: no rows in result set"
ErrBindParameters == "wrong number of statement parameters"
ErrOrderWithIdNotFound == "Order with id not found"
ErrGetByID == "Error to get order by id"

\* HTTP status codes of the handlers
StatusOK == 200
StatusCreated == 201
StatusBadRequest == 400
StatusNotFound == 404
StatusConflict == 409
StatusInternalServerError == 500
ErrPanic == "panic"

\* ------------------------------------------------- float64 (TotalAmount)
\* A non-negative float64 is m * 2^e: m is the 53-bit significand, written as
\* digits in base 2^15 with the least significant digit first; zero has no
\* digits. Amounts stay far from the subnormal and the overflow range, so e is
\* not bounded.
MantissaBits == 53

DigitBits == 15

Base == 2 ^ DigitBits

\* digits of the expansion of cents/100 taken before rounding
DivisionDigits == 6

FloatZero == [m |-> << >>, e |-> 0]

Zeros(k) == [i \in 1..k |-> 0]

Digit(a, i) == IF i >= 1 /\ i <= Len(a) THEN a[i] ELSE 0

RECURSIVE NatDigits(_)
NatDigits(n) == IF n = 0 THEN << >> ELSE <<n % Base>> \o NatDigits(n \div Base)

RECURSIVE DigitsNat(_)
DigitsNat(a) == IF a = << >> THEN 0 ELSE a[1] + Base * DigitsNat(Tail(a))

RECURSIVE Trim(_)
Trim(a) ==
    IF a = << >> THEN a
    ELSE IF a[Len(a)] = 0 THEN Trim(SubSeq(a, 1, Len(a) - 1))
    ELSE a

RECURSIVE BitLen(_)
BitLen(n) == IF n = 0 THEN 0 ELSE 1 + BitLen(n \div 2)

\* number of bits of a number without leading zero digits
BitLength(a) ==
    IF a = << >> THEN 0 ELSE DigitBits * (Len(a) - 1) + BitLen(a[Len(a)])

RECURSIVE AddDigits(_, _, _, _)
AddDigits(a, b, i, carry) ==
    IF i > Len(a) /\ i > Len(b)
    THEN IF carry = 0 THEN << >> ELSE <<carry>>
    ELSE LET s == Digit(a, i) + Digit(b, i) + carry
         IN  <<s % Base>> \o AddDigits(a, b, i + 1, s \div Base)

\* a times the single digit d
RECURSIVE ScaleDigits(_, _, _, _)
ScaleDigits(a, d, i, carry) ==
    IF i > Len(a)
    THEN IF carry = 0 THEN << >> ELSE <<carry>>
    ELSE LET s == a[i] * d + carry
         IN  <<s % Base>> \o ScaleDigits(a, d, i + 1, s \div Base)

RECURSIVE MulDigits(_, _, _)
MulDigits(a, b, j) ==
    IF j > Len(b) THEN << >>
    ELSE AddDigits(Zeros(j - 1) \o ScaleDigits(a, b[j], 1, 0), MulDigits(a, b, j + 1), 1, 0)

\* a * 2^k
ShiftLeft(a, k) ==
    LET s == k \div DigitBits
        r == k % DigitBits
    IN  Trim([i \in 1..(Len(a) + s + 1) |->
                 (Digit(a, i - s) % (2 ^ (DigitBits - r))) * (2 ^ r)
                    + Digit(a, i - s - 1) \div (2 ^ (DigitBits - r))])

\* a \div 2^k
ShiftRight(a, k) ==
    LET s == k \div DigitBits
        r == k % DigitBits
    IN  Trim([i \in 1..Len(a) |->
                 Digit(a, i + s) \div (2 ^ r)
                    + (Digit(a, i + s + 1) % (2 ^ r)) * (2 ^ (DigitBits - r))])

\* the float64 nearest to digits * 2^e, ties to the even significand
RoundToFloat64(digits, e) ==
    LET a == Trim(digits)
        k == BitLength(a) - MantissaBits
    IN  IF a = << >> THEN FloatZero
        ELSE IF k <= 0 THEN [m |-> ShiftLeft(a, 0 - k), e |-> e + k]
        ELSE LET kept == ShiftRight(a, k)
                 above == ShiftRight(a, k - 1)
                 guard == above[1] % 2 = 1
                 sticky == ShiftLeft(above, k - 1) # a
                 up == guard /\ (sticky \/ kept[1] % 2 = 1)
                 r == IF up THEN AddDigits(kept, <<1>>, 1, 0) ELSE kept
             IN  IF BitLength(r) > MantissaBits
                 THEN [m |-> ShiftRight(r, 1), e |-> e + k + 1]
                 ELSE [m |-> r, e |-> e + k]

\* float64(item.Quantity)
FromInt(n) == RoundToFloat64(NatDigits(n), 0)

\* x * y
FMul(x, y) == RoundToFloat64(MulDigits(x.m, y.m, 1), x.e + y.e)

\* x + y
FAdd(x, y) ==
    IF x = FloatZero THEN y
    ELSE IF y = FloatZero THEN x
    ELSE LET e == IF x.e < y.e THEN x.e ELSE y.e IN
         RoundToFloat64(AddDigits(ShiftLeft(x.m, x.e - e), ShiftLeft(y.m, y.e - e), 1, 0), e)

\* n digits of r/d after the point (least significant first) and the
\* remainder they leave
RECURSIVE Divide(_, _, _)
Divide(r, d, n) ==
    IF n = 0 THEN [digits |-> << >>, rem |-> r]
    ELSE LET rest == Divide((r * Base) % d, d, n - 1)
         IN  [digits |-> Append(rest.digits, (r * Base) \div d), rem |-> rest.rem]

\* the float64 of a decimal amount with two places, given in cents: a price or
\* a total as a Go literal, a JSON number or a scanned DECIMAL(10,2) value
Float64(cents) ==
    LET q == Divide(cents % 100, 100, DivisionDigits)
        sticky == IF q.rem = 0 THEN 0 ELSE 1
    IN  RoundToFloat64(<<sticky>> \o q.digits \o NatDigits(cents \div 100),
                       0 - DigitBits * (DivisionDigits + 1))

\* a float64 amount stored into a DECIMAL(10,2) column: the nearest number of
\* cents
ToDecimal2(x) ==
    IF x.e >= 0 THEN DigitsNat(ShiftLeft(ScaleDigits(x.m, 100, 1, 0), x.e))
    ELSE (DigitsNat(ShiftRight(ScaleDigits(x.m, 100, 1, 0), 0 - x.e - 1)) + 1) \div 2

\* order inputs a caller hands to CreateOrder. A price of c stands for the
\* float64 of the decimal with c cents, Float64(c). The input of user 202 comes
\* with an id, a status and a total of the caller's own
OrderInputs ==
    { [id |-> Nil, user_id |-> 201, status |-> "", total_amount |-> FloatZero,
       shipping_address_text |-> "", items |-> << >>],
      [id |-> Nil, user_id |-> 201, status |-> StatusNew, total_amount |-> Float64(4600),
       shipping_address_text |-> "addr", items |-> <<Item(301, 2, 1050), Item(302, 1, 2500)>>],
      [id |-> 101, user_id |-> 202, status |-> StatusPaid, total_amount |-> Float64(999),
       shipping_address_text |-> "", items |-> <<Item(301, 3, 10)>>],
      [id |-> Nil, user_id |-> 201, status |-> StatusNew, total_amount |-> FloatZero,
       shipping_address_text |-> "", items |-> <<Item(301, 1, 100), Item(302, 0, 100)>>],
      [id |-> Nil, user_id |-> 202, status |-> StatusNew, total_amount |-> FloatZero,
       shipping_address_text |-> "", items |-> <<Item(301, 1, 0 - 1)>>],
      [id |-> Nil, user_id |-> 202, status |-> StatusNew, total_amount |-> FloatZero,
       shipping_address_text |-> "", items |-> <<Item(Nil, 1, 100)>>] }

NoInput ==
    [id |-> Nil, user_id |-> Nil, status |-> "", total_amount |-> FloatZero,
     shipping_address_text |-> "", items |-> << >>]

\* ------------------------------------------------------------- user data
\* ids the callers of the user store make up
UserIds == {401, 402}

Emails == {"a@example.com", "b@example.com"}

\* the password of a request; "" is a request without one
Passwords == {"", "secret12"}

ErrNotFound == "user not found"
ErrEmailExists == "email already exists"
ErrPasswordEmpty == "password cannot be empty"

\* the zero value of User; a nil *User
NoUser == [id |-> Nil, first_name |-> "", last_name |-> "", email |-> "", password_hash |-> "",
           created_at |-> 0, updated_at |-> 0]

\* users as the callers of the service fill them: PasswordHash carries the
\* password of the request
UserInputs ==
    { [NoUser EXCEPT !.id = id, !.first_name = n[1], !.last_name = n[2], !.email = e,
                     !.password_hash = p] :
         id \in UserIds, n \in {<<"Ann", "Lee">>, <<"Bob", "Ray">>}, e \in Emails, p \in Passwords }

\* bcrypt.GenerateFromPassword, as a function of the password
GenerateFromPassword(p) ==
    IF p = "" THEN "$2a$10$" ELSE "$2a$10$secret12"

\* ----------------------------------------------------------------- state
VARIABLES
    orders,   \* committed rows of order_service.orders, keyed by id
    items,    \* committed rows of order_service.order_items
    clock,    \* wall clock read by time.Now()
    pc,       \* position of each worker in its call
    arg,      \* arguments of each worker's call
    cur,      \* order row fetched by GetOrderByID (currentOrder)
    got,      \* item rows / order list fetched by the second query
    tx,       \* open transaction of each worker: uncommitted rows
    ts,       \* time.Now() taken for the status update
    ret,      \* what the call returned
    users,    \* user_service.users: id -> row
    changes   \* history: how often the stored status of each order has changed,
              \* counted by the lifetime specification

vars == <<orders, items, clock, pc, arg, cur, got, tx, ts, ret, users, changes>>

NoArg == [op |-> "", layer |-> "", id |-> Nil, status |-> "", user_id |-> Nil, input |-> NoInput, idx |-> 0,
          user |-> NoUser]
NoTx == [order |-> NilOrder, items |-> {}]
NoGot == [items |-> {}, rows |-> << >>]
\* err is the error errors.Is finds in the returned chain, wraps the number of
\* fmt.Errorf("...: %w", err) layers around it (recorded for the reads by id
\* and the status update)
\* list_nil tells the nil slice (the zero value) from an empty one
NoRet == [err |-> ErrNone, id |-> Nil, order |-> NilOrder, items |-> {}, list |-> << >>, code |-> 0,
          wraps |-> 0, list_nil |-> TRUE, user |-> NoUser]

Init ==
    /\ orders = << >>
    /\ items = {}
    /\ clock = 1
    /\ pc = [w \in Workers |-> "idle"]
    /\ arg = [w \in Workers |-> NoArg]
    /\ cur = [w \in Workers |-> NilOrder]
    /\ got = [w \in Workers |-> NoGot]
    /\ tx = [w \in Workers |-> NoTx]
    /\ ts = [w \in Workers |-> 0]
    /\ ret = [w \in Workers |-> NoRet]
    /\ users = << >>
    /\ changes = << >>

\* ids a caller may ask for: stored ones, ids nobody stored, and ids of
\* orders that are being created
KnownIds == DOMAIN orders \cup PresetIds

CreatingIds == {arg[w].id : w \in {v \in Workers : pc[v] \in {"ins_order", "ins_item", "commit"}}}

\* ------------------------------------------------ status transition engine
\* the table with a terminal status that can still be left
allowedTransitions_TerminalLeft ==
    [s \in Statuses |->
        CASE s = StatusNew -> {StatusProcessing, StatusCancelled}
          [] s = StatusProcessing -> {StatusPaid, StatusShipped, StatusCancelled}
          [] s = StatusPaid -> {StatusShipped, StatusCancelled}
          [] s = StatusShipped -> {StatusDelivered, StatusCancelled}
          [] s = StatusDelivered -> {StatusCancelled}
          [] s = StatusCancelled -> {}]

\* the table with an edge back to NEW
allowedTransitions_Revert ==
    [s \in Statuses |->
        CASE s = StatusNew -> {StatusProcessing, StatusCancelled}
          [] s = StatusProcessing -> {StatusNew, StatusPaid, StatusShipped, StatusCancelled}
          [] s = StatusPaid -> {StatusShipped, StatusCancelled}
          [] s = StatusShipped -> {StatusDelivered, StatusCancelled}
          [] s = StatusDelivered -> {}
          [] s = StatusCancelled -> {}]

\* the table with a cancelled order that can be opened again
allowedTransitions_Reopen ==
    [s \in Statuses |->
        CASE s = StatusNew -> {StatusProcessing, StatusCancelled}
          [] s = StatusProcessing -> {StatusPaid, StatusShipped, StatusCancelled}
          [] s = StatusPaid -> {StatusShipped, StatusCancelled}
          [] s = StatusShipped -> {StatusDelivered, StatusCancelled}
          [] s = StatusDelivered -> {}
          [] s = StatusCancelled -> {StatusNew}]

allowedTransitions ==
    [s \in Statuses |->
        CASE s = StatusNew -> {StatusProcessing, StatusCancelled}
          [] s = StatusProcessing -> {StatusPaid, StatusShipped, StatusCancelled}
          [] s = StatusPaid -> {StatusShipped, StatusCancelled}
          [] s = StatusShipped -> {StatusDelivered, StatusCancelled}
          [] s = StatusDelivered -> {}
          [] s = StatusCancelled -> {}]

\* the check without the early return for an unchanged status
CheckTransition_NoEarlyReturn(current, requested) ==
    IF current = requested THEN "Allowed"
    ELSE IF current \notin DOMAIN allowedTransitions
            \/ requested \notin allowedTransitions[current] THEN "Rejected"
    ELSE "Allowed"

\* steps 3 and 4 of service.UpdateOrderStatus
CheckTransition(current, requested) ==
    IF current = requested THEN "NoOp"
    ELSE IF current \notin DOMAIN allowedTransitions
            \/ requested \notin allowedTransitions[current] THEN "Rejected"
    ELSE "Allowed"

\* ------------------------------------------------------------- the store
\* an UPDATE that also compares the stored status with the table
UpdateRow_Guarded(row, newStatus, now) ==
    IF newStatus \in allowedTransitions[row.status]
    THEN [row EXCEPT !.status = newStatus, !.updated_at = now]
    ELSE row

\* UPDATE orders SET status = $1, updated_at = $2 WHERE id = $3
UpdateRow(row, newStatus, now) ==
    [row EXCEPT !.status = newStatus, !.updated_at = now]

\* the result that ignores cmdTag.RowsAffected()
UpdateResult_Ignored(rowsAffected) == ErrNone

\* the result of repository UpdateOrderStatus after a statement that ran
UpdateResult(rowsAffected) ==
    IF rowsAffected = 0 THEN ErrOrderNotFound ELSE ErrNone

ItemsOf(tbl, orderID) == {it \in tbl : it.order_id = orderID}

\* fmt.Errorf("...: %w", err): one more layer around the same error
Wrap(r) == [r EXCEPT !.wraps = @ + 1]

\* the result of a statement of the repository that failed
StoreFailure == Wrap([NoRet EXCEPT !.err = ErrStorage])

\* the result of the first query of GetOrderByID that found no row
\* (pgx.ErrNoRows)
NoRows == [NoRet EXCEPT !.err = ErrOrderNotFound]

\* a service that wraps every error of the store
ServiceError_WrapsAll(r) ==
    IF r.err = ErrNone THEN r ELSE Wrap(r)

\* the service's answer to a result of the store: ErrOrderNotFound is returned
\* as it is, any other error wrapped
ServiceError(r) ==
    IF r.err = ErrNone THEN r
    ELSE IF r.err = ErrOrderNotFound THEN [NoRet EXCEPT !.err = ErrOrderNotFound]
    ELSE Wrap(r)

\* ------------------------------------------------------ UpdateOrderStatus
SvcUpdateOrderStatus(w) ==
    /\ pc[w] = "idle"
    /\ \E id \in KnownIds, s \in Statuses :
          arg' = [arg EXCEPT ![w] = [NoArg EXCEPT !.op = "UpdateOrderStatus",
                                     !.layer = "service", !.id = id, !.status = s]]
    /\ pc' = [pc EXCEPT ![w] = "get_order"]
    /\ UNCHANGED <<users, changes, orders, items, clock, cur, got, tx, ts, ret>>

\* first query of repository GetOrderByID: the order row
QueryOrderRow(w) ==
    /\ pc[w] = "get_order"
    /\ \E failed \in BOOLEAN :
          IF failed
          THEN /\ pc' = [pc EXCEPT ![w] = "done"]
               /\ ret' = [ret EXCEPT ![w] = ServiceError(StoreFailure)]
               /\ cur' = cur
          ELSE IF arg[w].id \notin DOMAIN orders
          THEN /\ pc' = [pc EXCEPT ![w] = "done"]
               /\ ret' = [ret EXCEPT ![w] = ServiceError(NoRows)]
               /\ cur' = cur
          ELSE /\ pc' = [pc EXCEPT ![w] = "get_items"]
               /\ cur' = [cur EXCEPT ![w] = orders[arg[w].id]]
               /\ ret' = ret
    /\ UNCHANGED <<users, changes, orders, items, clock, arg, got, tx, ts>>

\* second query of repository GetOrderByID: the item rows
QueryOrderItems(w) ==
    /\ pc[w] = "get_items"
    /\ \E failed \in BOOLEAN :
          IF failed
          THEN /\ pc' = [pc EXCEPT ![w] = "done"]
               /\ ret' = [ret EXCEPT ![w] = ServiceError(StoreFailure)]
               /\ cur' = [cur EXCEPT ![w] = NilOrder]
          ELSE IF arg[w].op = "UpdateOrderStatus"
          THEN /\ pc' = [pc EXCEPT ![w] = "upd_check"]
               /\ cur' = cur
               /\ ret' = ret
          ELSE /\ pc' = [pc EXCEPT ![w] = "done"]
               /\ cur' = cur
               /\ ret' = [ret EXCEPT ![w] = [NoRet EXCEPT !.order = cur[w],
                                             !.items = ItemsOf(items, arg[w].id)]]
    /\ UNCHANGED <<users, changes, orders, items, clock, arg, got, tx, ts>>

\* service.UpdateOrderStatus after the fetch: no-op, rejection, or the call of
\* repository UpdateOrderStatus, which evaluates time.Now() for the statement
CheckStatus(w) ==
    /\ pc[w] = "upd_check"
    /\ LET d == CheckTransition(cur[w].status, arg[w].status) IN
          CASE d = "NoOp" ->
                 /\ pc' = [pc EXCEPT ![w] = "done"]
                 /\ ret' = [ret EXCEPT ![w] = NoRet]
                 /\ ts' = ts
            [] d = "Rejected" ->
                 /\ pc' = [pc EXCEPT ![w] = "done"]
                 /\ ret' = [ret EXCEPT ![w] = [NoRet EXCEPT !.err = ErrInvalidTransition]]
                 /\ ts' = ts
            [] OTHER ->
                 /\ pc' = [pc EXCEPT ![w] = "upd_exec"]
                 /\ ts' = [ts EXCEPT ![w] = clock]
                 /\ ret' = ret
    /\ UNCHANGED <<users, changes, orders, items, clock, arg, cur, got, tx>>

\* repository UpdateOrderStatus: the UPDATE statement and its result
UpdateStatement(w) ==
    /\ pc[w] = "upd_exec"
    /\ pc' = [pc EXCEPT ![w] = "done"]
    /\ \E failed \in BOOLEAN :
          LET rowsAffected == IF arg[w].id \in DOMAIN orders THEN 1 ELSE 0
              r == IF failed THEN StoreFailure
                   ELSE [NoRet EXCEPT !.err = UpdateResult(rowsAffected)]
          IN  /\ ret' = [ret EXCEPT ![w] = IF arg[w].layer = "service"
                                            THEN ServiceError(r) ELSE r]
              /\ orders' = IF failed \/ rowsAffected = 0 THEN orders
                            ELSE [orders EXCEPT ![arg[w].id] =
                                     UpdateRow(@, arg[w].status, ts[w])]
    /\ UNCHANGED <<users, items, clock, arg, cur, got, tx, ts>>

ExecUpdate(w) == UpdateStatement(w) /\ UNCHANGED changes

\* how often the stored status of the order has changed so far
Changes(id) == IF id \in DOMAIN changes THEN changes[id] ELSE 0

\* the same step with the history kept: a statement after which the row
\* holds another status than before counts as one change
CountedExecUpdate(w) ==
    /\ UpdateStatement(w)
    /\ LET id == arg[w].id IN
          changes' = IF id \in DOMAIN orders /\ orders'[id].status # orders[id].status
                     THEN (id :> (Changes(id) + 1)) @@ changes
                     ELSE changes

\* the caller takes the result; the worker serves the next request
Return(w) ==
    /\ pc[w] = "done"
    /\ pc' = [pc EXCEPT ![w] = "idle"]
    /\ arg' = [arg EXCEPT ![w] = NoArg]
    /\ cur' = [cur EXCEPT ![w] = NilOrder]
    /\ got' = [got EXCEPT ![w] = NoGot]
    /\ tx' = [tx EXCEPT ![w] = NoTx]
    /\ ts' = [ts EXCEPT ![w] = 0]
    /\ ret' = [ret EXCEPT ![w] = NoRet]
    /\ UNCHANGED <<users, changes, orders, items, clock>>

Tick ==
    /\ clock < MaxClock
    /\ clock' = clock + 1
    /\ UNCHANGED <<users, changes, orders, items, pc, arg, cur, got, tx, ts, ret>>

\* ------------------------------------------------------------ CreateOrder
\* the validation without the check for an empty item list
ValidOrderInput_EmptyAllowed(in) ==
    \A i \in 1..Len(in.items) :
        /\ in.items[i].quantity > 0
        /\ in.items[i].price_per_unit >= 0
        /\ in.items[i].product_id # Nil

\* the validation that looks at the first item only
ValidOrderInput_FirstItemOnly(in) ==
    /\ Len(in.items) > 0
    /\ in.items[1].quantity > 0
    /\ in.items[1].price_per_unit >= 0
    /\ in.items[1].product_id # Nil

\* validation loop of service.CreateOrder
ValidOrderInput(in) ==
    /\ Len(in.items) > 0
    /\ \A i \in 1..Len(in.items) :
          /\ in.items[i].quantity > 0
          /\ in.items[i].price_per_unit >= 0
          /\ in.items[i].product_id # Nil

RECURSIVE SumItems(_, _)
SumItems(its, n) ==
    IF n = 0 THEN FloatZero
    ELSE FAdd(SumItems(its, n - 1),
              FMul(FromInt(its[n].quantity), Float64(its[n].price_per_unit)))

\* totalAmount accumulated by service.CreateOrder
TotalAmount(its) == SumItems(its, Len(its))

\* the preparation that leaves the caller's id in place
PrepareOrder_KeepsId(in) ==
    [in EXCEPT !.status = StatusNew, !.total_amount = TotalAmount(in.items)]

\* the preparation that leaves the caller's status in place
PrepareOrder_KeepsStatus(in) ==
    [in EXCEPT !.id = Nil, !.total_amount = TotalAmount(in.items)]

\* what service.CreateOrder hands to the repository
PrepareOrder(in) ==
    [in EXCEPT !.id = Nil, !.status = StatusNew, !.total_amount = TotalAmount(in.items)]

\* CHECK constraints of the schema
OrderRowAccepted(row) == row.status \in Statuses
ItemRowAccepted(row) == row.quantity > 0 /\ row.price_per_unit >= 0

\* a table without the primary key
DuplicateKey_NoPrimaryKey(tbl, id) == FALSE

\* id UUID PRIMARY KEY: an INSERT of a stored id is refused
DuplicateKey(tbl, id) == id \in DOMAIN tbl

\* the order INSERT run on the pool instead of the transaction
InsertOrderRow_NoTx(tbl, t, row) ==
    [orders |-> (row.id :> row) @@ tbl, tx |-> t]

\* tx.Exec of the order INSERT: the row is written inside the transaction
InsertOrderRow(tbl, t, row) ==
    [orders |-> tbl, tx |-> [t EXCEPT !.order = row]]

\* an item INSERT run on the pool instead of the transaction
InsertItemRow_NoTx(tbl, t, row) ==
    [items |-> tbl \cup {row}, tx |-> t]

\* tx.Exec of an item INSERT
InsertItemRow(tbl, t, row) ==
    [items |-> tbl, tx |-> [t EXCEPT !.items = @ \cup {row}]]

\* tx.Rollback
Rollback(t) == NoTx

\* tx.Commit: the rows of the transaction become visible together
CommitOrders(tbl, t) ==
    IF t.order.id = Nil THEN tbl ELSE (t.order.id :> t.order) @@ tbl

CommitItems(tbl, t) == tbl \cup t.items

\* ids in use: stored, written in an open transaction or held by a call
UsedIds ==
    DOMAIN orders \cup {it.id : it \in items} \cup PresetIds
       \cup {arg[w].id : w \in Workers} \cup {ret[w].id : w \in Workers}
       \cup UNION {{it.id : it \in tx[w].items} : w \in Workers}

\* uuid.NewV4(): an id nobody holds (the first one, to name it)
NewV4 == CHOOSE n \in 1..(Cardinality(UsedIds) + 1) :
            n \notin UsedIds /\ \A m \in 1..(n - 1) : m \in UsedIds

\* creations under way
Creating == {w \in Workers : pc[w] \in {"ins_order", "ins_item", "commit"}}

\* repository CreateOrder up to and including r.db.Begin
BeginCreate(w, in, layer) ==
    LET fresh == in.id = Nil
        finalOrderID == IF fresh THEN NewV4 ELSE in.id
    IN  /\ Cardinality(DOMAIN orders \cup CreatingIds \cup {finalOrderID}) <= MaxOrders
        /\ arg' = [arg EXCEPT ![w] = [NoArg EXCEPT !.op = "CreateOrder", !.layer = layer,
                                      !.id = finalOrderID, !.user_id = in.user_id,
                                      !.input = [in EXCEPT !.id = finalOrderID], !.idx = 1]]
        /\ \E failed \in BOOLEAN :
              IF failed
              THEN /\ pc' = [pc EXCEPT ![w] = "done"]
                   /\ ret' = [ret EXCEPT ![w] = [NoRet EXCEPT !.err = ErrStorage]]
              ELSE /\ pc' = [pc EXCEPT ![w] = "ins_order"]
                   /\ ret' = ret

SvcCreateOrder(w) ==
    /\ pc[w] = "idle"
    /\ \E in \in OrderInputs :
          IF ValidOrderInput(in)
          THEN BeginCreate(w, PrepareOrder(in), "service")
          ELSE /\ pc' = [pc EXCEPT ![w] = "done"]
               /\ ret' = [ret EXCEPT ![w] = [NoRet EXCEPT !.err = ErrValidation]]
               /\ arg' = [arg EXCEPT ![w] = [NoArg EXCEPT !.op = "CreateOrder",
                                             !.layer = "service", !.input = in]]
    /\ UNCHANGED <<users, changes, orders, items, clock, cur, got, tx, ts>>

\* INSERT INTO orders inside the transaction; a second insert of a key that
\* another open transaction has inserted waits for that transaction. The
\* CHECK constraints are evaluated before the key is looked up
InsertOrder(w) ==
    /\ pc[w] = "ins_order"
    /\ \A v \in Workers \ {w} : tx[v].order.id # arg[w].id
    /\ LET in == arg[w].input
           row == [id |-> arg[w].id, user_id |-> in.user_id, status |-> in.status,
                   total_amount |-> ToDecimal2(in.total_amount),
                   shipping_address_text |-> in.shipping_address_text,
                   created_at |-> clock, updated_at |-> clock]
           duplicate == DuplicateKey(orders, arg[w].id)
       IN \E out \in {"ok", "err", "panic"} :
            IF out = "ok" /\ OrderRowAccepted(row) /\ ~duplicate
            THEN LET r == InsertOrderRow(orders, tx[w], row) IN
                 /\ orders' = r.orders
                 /\ tx' = [tx EXCEPT ![w] = r.tx]
                 /\ pc' = [pc EXCEPT ![w] = IF Len(in.items) = 0 THEN "commit" ELSE "ins_item"]
                 /\ ret' = ret
            ELSE /\ orders' = orders
                 /\ tx' = [tx EXCEPT ![w] = Rollback(@)]
                 /\ pc' = [pc EXCEPT ![w] = "done"]
                 /\ ret' = [ret EXCEPT ![w] = [NoRet EXCEPT !.err =
                               IF out = "panic" THEN ErrPanic
                               ELSE IF out = "ok" /\ OrderRowAccepted(row) THEN ErrUniqueViolation
                               ELSE ErrStorage]]
    /\ UNCHANGED <<users, changes, items, clock, arg, cur, got, ts>>

\* one round of the item loop: uuid.NewV4, time.Now, INSERT INTO order_items
\* an item INSERT that passes itemInput.OrderID, which is set only after the
\* statement
ItemRow_OwnOrderID(itemID, finalOrderID, it, now) ==
    [id |-> itemID, order_id |-> Nil,
     product_id |-> it.product_id,
     quantity |-> it.quantity,
     price_per_unit |-> it.price_per_unit,
     created_at |-> now, updated_at |-> now]

\* the row of an item INSERT: the generated item id, finalOrderID as order_id
ItemRow(itemID, finalOrderID, it, now) ==
    [id |-> itemID, order_id |-> finalOrderID,
     product_id |-> it.product_id,
     quantity |-> it.quantity,
     price_per_unit |-> it.price_per_unit,
     created_at |-> now, updated_at |-> now]

InsertItem(w) ==
    /\ pc[w] = "ins_item"
    /\ LET in == arg[w].input
           i == arg[w].idx
           row == ItemRow(NewV4, arg[w].id, in.items[i], clock)
       IN \E out \in {"ok", "err", "panic"} :
               IF out = "ok" /\ ItemRowAccepted(row)
               THEN LET r == InsertItemRow(items, tx[w], row) IN
                    /\ items' = r.items
                    /\ tx' = [tx EXCEPT ![w] = r.tx]
                    /\ arg' = [arg EXCEPT ![w].idx = i + 1]
                    /\ pc' = [pc EXCEPT ![w] = IF i = Len(in.items) THEN "commit" ELSE "ins_item"]
                    /\ ret' = ret
               ELSE /\ items' = items
                    /\ tx' = [tx EXCEPT ![w] = Rollback(@)]
                    /\ arg' = arg
                    /\ pc' = [pc EXCEPT ![w] = "done"]
                    /\ ret' = [ret EXCEPT ![w] = [NoRet EXCEPT
                                                  !.err = IF out = "panic" THEN ErrPanic ELSE ErrStorage]]
    /\ UNCHANGED <<users, changes, orders, clock, cur, got, ts>>

\* the deferred function on the success path: tx.Commit. The named result
\* orderID was already set by "return finalOrderID, nil"
Commit(w) ==
    /\ pc[w] = "commit"
    /\ pc' = [pc EXCEPT ![w] = "done"]
    /\ \E failed \in BOOLEAN :
          IF failed
          THEN /\ orders' = orders
               /\ items' = items
               /\ ret' = [ret EXCEPT ![w] = [NoRet EXCEPT !.err = ErrStorage, !.id = arg[w].id]]
          ELSE /\ orders' = CommitOrders(orders, tx[w])
               /\ items' = CommitItems(items, tx[w])
               /\ ret' = [ret EXCEPT ![w] = [NoRet EXCEPT !.id = arg[w].id,
                                             !.order = tx[w].order, !.items = tx[w].items]]
    /\ tx' = [tx EXCEPT ![w] = NoTx]
    /\ UNCHANGED <<users, changes, clock, arg, cur, got, ts>>

\* ------------------------------------------- GetOrderByID, GetOrdersByUserID
SvcGetOrderByID(w) ==
    /\ pc[w] = "idle"
    /\ \E id \in KnownIds \cup CreatingIds :
          arg' = [arg EXCEPT ![w] = [NoArg EXCEPT !.op = "GetOrderByID",
                                     !.layer = "service", !.id = id]]
    /\ pc' = [pc EXCEPT ![w] = "get_order"]
    /\ UNCHANGED <<users, changes, orders, items, clock, cur, got, tx, ts, ret>>

SvcGetOrdersByUserID(w) ==
    /\ pc[w] = "idle"
    /\ \E u \in Users :
          arg' = [arg EXCEPT ![w] = [NoArg EXCEPT !.op = "GetOrdersByUserID",
                                     !.layer = "service", !.user_id = u]]
    /\ pc' = [pc EXCEPT ![w] = "list_orders"]
    /\ UNCHANGED <<users, changes, orders, items, clock, cur, got, tx, ts, ret>>

\* the orderings ORDER BY created_at ASC may produce
SortedByCreatedAtDesc_Ascending(ids) ==
    {s \in [1..Cardinality(ids) -> ids] :
        /\ \A i, j \in 1..Cardinality(ids) : i # j => s[i] # s[j]
        /\ \A i, j \in 1..Cardinality(ids) :
              i < j => orders[s[i]].created_at <= orders[s[j]].created_at}

\* the orderings ORDER BY created_at DESC may produce for a set of order ids
SortedByCreatedAtDesc(ids) ==
    {s \in [1..Cardinality(ids) -> ids] :
        /\ \A i, j \in 1..Cardinality(ids) : i # j => s[i] # s[j]
        /\ \A i, j \in 1..Cardinality(ids) :
              i < j => orders[s[i]].created_at >= orders[s[j]].created_at}

\* a result that leaves the list at its zero value
EmptyOrders_Nil == NoRet

\* return []Order{}, nil
EmptyOrders == [NoRet EXCEPT !.list = << >>, !.list_nil = FALSE]

\* first query of GetOrdersByUserID: the user's order rows
QueryUserOrders(w) ==
    /\ pc[w] = "list_orders"
    /\ pc' = [pc EXCEPT ![w] = "done"] \/ pc' = [pc EXCEPT ![w] = "list_items"]
    /\ LET ids == {id \in DOMAIN orders : orders[id].user_id = arg[w].user_id} IN
       \E failed \in BOOLEAN :
          IF failed
          THEN /\ pc'[w] = "done"
               /\ ret' = [ret EXCEPT ![w] = [NoRet EXCEPT !.err = ErrStorage]]
               /\ got' = got
          ELSE IF ids = {}
          THEN /\ pc'[w] = "done"
               /\ ret' = [ret EXCEPT ![w] = EmptyOrders]
               /\ got' = got
          ELSE /\ pc'[w] = "list_items"
               /\ ret' = ret
               /\ \E s \in SortedByCreatedAtDesc(ids) :
                     got' = [got EXCEPT ![w].rows = [i \in 1..Len(s) |-> orders[s[i]]]]
    /\ UNCHANGED <<users, changes, orders, items, clock, arg, cur, tx, ts>>

\* SELECT ... FROM order_items WHERE order_id = ANY($1)
UserOrderItems(tbl, rows) ==
    {it \in tbl : \E i \in 1..Len(rows) : rows[i].id = it.order_id}

\* the assembly with every map entry pointing at the last order scanned
AssembleOrders_Aliased(rows, itemRows) ==
    [i \in 1..Len(rows) |->
        [order |-> rows[i],
         items |-> IF i = Len(rows) THEN itemRows ELSE {}]]

\* the assembly of the result: each item row goes to ordersMap[item.OrderID],
\* the orders are returned in the order of orderIDs
AssembleOrders(rows, itemRows) ==
    [i \in 1..Len(rows) |->
        [order |-> rows[i],
         items |-> {it \in itemRows : it.order_id = rows[i].id}]]

\* second query of GetOrdersByUserID and the assembly through ordersMap
QueryUserOrderItems(w) ==
    /\ pc[w] = "list_items"
    /\ pc' = [pc EXCEPT ![w] = "done"]
    /\ \E failed \in BOOLEAN :
          IF failed
          THEN ret' = [ret EXCEPT ![w] = [NoRet EXCEPT !.err = ErrStorage]]
          ELSE ret' = [ret EXCEPT ![w] = [NoRet EXCEPT !.list_nil = FALSE, !.list =
                          AssembleOrders(got[w].rows, UserOrderItems(items, got[w].rows))]]
    /\ UNCHANGED <<users, changes, orders, items, clock, arg, cur, got, tx, ts>>

\* ------------------------------------- the repository called on its own
RepoUpdateOrderStatus(w) ==
    /\ pc[w] = "idle"
    /\ \E id \in KnownIds, s \in Statuses :
          arg' = [arg EXCEPT ![w] = [NoArg EXCEPT !.op = "UpdateOrderStatus",
                                     !.layer = "repo", !.id = id, !.status = s]]
    /\ ts' = [ts EXCEPT ![w] = clock]
    /\ pc' = [pc EXCEPT ![w] = "upd_exec"]
    /\ UNCHANGED <<users, changes, orders, items, clock, cur, got, tx, ret>>

\* repository CreateOrder called with an order that carries one of ids
RepoCreate(w, ids) ==
    /\ pc[w] = "idle"
    /\ \E in \in OrderInputs, id \in ids :
          BeginCreate(w, [in EXCEPT !.id = id], "repo")
    /\ UNCHANGED <<users, changes, orders, items, clock, cur, got, tx, ts>>

RepoCreateOrder(w) == RepoCreate(w, PresetIds)

\* ------------------- the id-checking order service behind OrderHandler
\* orders as OrderHandler.CreateOrder decodes them: the id is the caller's
OldOrderInputs ==
    { [NoInput EXCEPT !.id = id, !.user_id = 201, !.status = st, !.total_amount = Float64(10000)] :
         id \in CallerIds, st \in {"", "created"} }

\* the answer of OrderHandler.CreateOrder to the result of the service
CreateOrderResponse(err) ==
    IF err = ErrNone THEN StatusCreated
    ELSE IF err = ErrDuplicateOrderID THEN StatusConflict
    ELSE StatusInternalServerError

\* OrderHandler.CreateOrder up to the existence check of orderService.CreateOrder:
\* the body is decoded and the order validated
HandlerCreateOrder(w) ==
    /\ pc[w] = "idle"
    /\ \E in \in OldOrderInputs, decoded \in BOOLEAN :
          /\ arg' = [arg EXCEPT ![w] = [NoArg EXCEPT !.op = "CreateOrder", !.layer = "handler",
                                        !.id = IF decoded THEN in.id ELSE Nil,
                                        !.input = IF decoded THEN in ELSE NoInput]]
          /\ IF ~decoded
             THEN /\ pc' = [pc EXCEPT ![w] = "done"]
                  /\ ret' = [ret EXCEPT ![w] = [NoRet EXCEPT !.code = StatusBadRequest]]
             ELSE IF in.status = ""
             THEN /\ pc' = [pc EXCEPT ![w] = "done"]
                  /\ ret' = [ret EXCEPT ![w] = [NoRet EXCEPT !.err = ErrValidation,
                                                !.code = CreateOrderResponse(ErrValidation)]]
             ELSE /\ pc' = [pc EXCEPT ![w] = "exists"]
                  /\ ret' = ret
    /\ UNCHANGED <<users, changes, orders, items, clock, cur, got, tx, ts>>

\* s.repo.ExistsByID and the branch on its result
ExistsByID(w) ==
    /\ pc[w] = "exists"
    /\ \E failed \in BOOLEAN :
          LET err == IF failed THEN ErrStorage
                     ELSE IF arg[w].id \in DOMAIN orders THEN ErrDuplicateOrderID
                     ELSE ErrNone
          IN  IF err = ErrNone
              THEN /\ pc' = [pc EXCEPT ![w] = "create"]
                   /\ ret' = ret
              ELSE /\ pc' = [pc EXCEPT ![w] = "done"]
                   /\ ret' = [ret EXCEPT ![w] = [NoRet EXCEPT !.err = err,
                                                 !.code = CreateOrderResponse(err)]]
    /\ UNCHANGED <<users, changes, orders, items, clock, arg, cur, got, tx, ts>>

\* s.repo.Create, one INSERT of the order row, and the handler's answer
Create(w) ==
    /\ pc[w] = "create"
    /\ pc' = [pc EXCEPT ![w] = "done"]
    /\ \E failed \in BOOLEAN :
          LET in == arg[w].input
              row == [id |-> in.id, user_id |-> in.user_id, status |-> in.status,
                      total_amount |-> ToDecimal2(in.total_amount),
                      shipping_address_text |-> "",
                      created_at |-> clock, updated_at |-> clock]
              err == IF failed THEN ErrStorage
                     ELSE IF DuplicateKey(orders, in.id) THEN ErrUniqueViolation
                     ELSE ErrNone
          IN  /\ orders' = IF err = ErrNone THEN (in.id :> row) @@ orders ELSE orders
              /\ ret' = [ret EXCEPT ![w] = [NoRet EXCEPT !.err = err,
                                            !.code = CreateOrderResponse(err)]]
    /\ UNCHANGED <<users, changes, items, clock, arg, cur, got, tx, ts>>

\* --------------------------------------------------------- the user store
\* PRIMARY KEY (id) and UNIQUE (email) against a row to insert
InsertViolatesUnique(tbl, row) ==
    \/ row.id \in DOMAIN tbl
    \/ \E o \in DOMAIN tbl : tbl[o].email = row.email

\* a users table without UNIQUE (email)
UpdateViolatesUnique_NoEmailIndex(tbl, id, email) == FALSE

\* UNIQUE (email) against the rows an UPDATE ... WHERE id = $6 changes
UpdateViolatesUnique(tbl, id, email) ==
    /\ id \in DOMAIN tbl
    /\ \E o \in DOMAIN tbl \ {id} : tbl[o].email = email

\* a service that formats the errors it does not look for with %v
PassOn_Formatted(r, sentinel) ==
    IF r.err = ErrNone THEN r
    ELSE IF r.err = sentinel THEN [NoRet EXCEPT !.err = sentinel]
    ELSE [NoRet EXCEPT !.err = ErrStorage]

\* the service's answer to an error of the user store: the sentinel it looks
\* for is returned as it is, any other error wrapped
PassOn(r, sentinel) ==
    IF r.err = ErrNone THEN r
    ELSE IF r.err = sentinel THEN [NoRet EXCEPT !.err = sentinel]
    ELSE Wrap(r)

\* repository.Create: one INSERT ... RETURNING id; created_at and updated_at
\* default to NOW()
InsertUser(tbl, u, now, failed) ==
    LET row == [u EXCEPT !.created_at = now, !.updated_at = now] IN
    IF failed THEN [tbl |-> tbl, ret |-> StoreFailure]
    ELSE IF InsertViolatesUnique(tbl, row)
    THEN [tbl |-> tbl, ret |-> [NoRet EXCEPT !.err = ErrEmailExists]]
    ELSE [tbl |-> (row.id :> row) @@ tbl, ret |-> [NoRet EXCEPT !.id = row.id]]

\* repository.Update: one UPDATE of the names, the email, the password hash and
\* updated_at of the row with the user's id
UpdateUserRow(tbl, u, now, failed) ==
    IF failed THEN [tbl |-> tbl, ret |-> StoreFailure]
    ELSE IF UpdateViolatesUnique(tbl, u.id, u.email)
    THEN [tbl |-> tbl, ret |-> [NoRet EXCEPT !.err = ErrEmailExists]]
    ELSE IF u.id \notin DOMAIN tbl
    THEN [tbl |-> tbl, ret |-> [NoRet EXCEPT !.err = ErrNotFound]]
    ELSE [tbl |-> [tbl EXCEPT ![u.id] = [@ EXCEPT !.first_name = u.first_name,
                                                   !.last_name = u.last_name,
                                                   !.email = u.email,
                                                   !.password_hash = u.password_hash,
                                                   !.updated_at = now]],
          ret |-> NoRet]

\* repository.Delete: DELETE FROM users WHERE id = $1
DeleteUserRow(tbl, id, failed) ==
    IF failed THEN [tbl |-> tbl, ret |-> StoreFailure]
    ELSE IF id \notin DOMAIN tbl
    THEN [tbl |-> tbl, ret |-> [NoRet EXCEPT !.err = ErrNotFound]]
    ELSE [tbl |-> [o \in DOMAIN tbl \ {id} |-> tbl[o]], ret |-> NoRet]

\* repository.GetByID
SelectUser(tbl, id, failed) ==
    IF failed THEN StoreFailure
    ELSE IF id \notin DOMAIN tbl THEN [NoRet EXCEPT !.err = ErrNotFound]
    ELSE [NoRet EXCEPT !.user = tbl[id]]

UserLayers == {"repo", "service"}

\* service.CreateUser, or repository.Create called on its own
CreateUser(w) ==
    /\ pc[w] = "idle"
    /\ pc' = [pc EXCEPT ![w] = "done"]
    /\ \E u \in UserInputs, layer \in UserLayers, failed \in BOOLEAN :
          /\ arg' = [arg EXCEPT ![w] = [NoArg EXCEPT !.op = "CreateUser", !.layer = layer,
                                        !.id = u.id, !.user = u]]
          /\ IF layer = "service" /\ u.password_hash = ""
             THEN /\ ret' = [ret EXCEPT ![w] = [NoRet EXCEPT !.err = ErrPasswordEmpty]]
                  /\ users' = users
             ELSE LET hashed == IF layer = "service"
                                THEN [u EXCEPT !.password_hash = GenerateFromPassword(@)]
                                ELSE u
                      r == InsertUser(users, hashed, clock, failed)
                  IN  /\ users' = r.tbl
                      /\ ret' = [ret EXCEPT ![w] =
                                    IF layer = "repo" THEN r.ret
                                    ELSE IF r.ret.err = ErrNone
                                    THEN [r.ret EXCEPT !.user = hashed]
                                    ELSE PassOn(r.ret, ErrEmailExists)]
    /\ UNCHANGED <<orders, items, clock, cur, got, tx, ts, changes>>

\* the user service.UpdateUser hands to the store: a password is hashed, an
\* empty PasswordHash stays empty
UpdateUserArgument(u) ==
    IF u.password_hash # "" THEN [u EXCEPT !.password_hash = GenerateFromPassword(@)] ELSE u

\* service.UpdateUser, or repository.Update called on its own
UpdateUser(w) ==
    /\ pc[w] = "idle"
    /\ pc' = [pc EXCEPT ![w] = "done"]
    /\ \E u \in UserInputs, layer \in UserLayers, failed \in BOOLEAN :
          LET given == IF layer = "service" THEN UpdateUserArgument(u) ELSE u
              r == UpdateUserRow(users, given, clock, failed)
          IN  /\ arg' = [arg EXCEPT ![w] = [NoArg EXCEPT !.op = "UpdateUser", !.layer = layer,
                                            !.id = u.id, !.user = u]]
              /\ users' = r.tbl
              /\ ret' = [ret EXCEPT ![w] = IF layer = "service"
                                            THEN PassOn(r.ret, ErrEmailExists) ELSE r.ret]
    /\ UNCHANGED <<orders, items, clock, cur, got, tx, ts, changes>>

\* service.DeleteUser, or repository.Delete called on its own
DeleteUser(w) ==
    /\ pc[w] = "idle"
    /\ pc' = [pc EXCEPT ![w] = "done"]
    /\ \E id \in UserIds, layer \in UserLayers, failed \in BOOLEAN :
          LET r == DeleteUserRow(users, id, failed) IN
          /\ arg' = [arg EXCEPT ![w] = [NoArg EXCEPT !.op = "DeleteUser", !.layer = layer,
                                        !.id = id]]
          /\ users' = r.tbl
          /\ ret' = [ret EXCEPT ![w] = IF layer = "service"
                                        THEN PassOn(r.ret, ErrNotFound) ELSE r.ret]
    /\ UNCHANGED <<orders, items, clock, cur, got, tx, ts, changes>>

\* service.GetUserByID, or repository.GetByID called on its own
GetUserByID(w) ==
    /\ pc[w] = "idle"
    /\ pc' = [pc EXCEPT ![w] = "done"]
    /\ \E id \in UserIds, layer \in UserLayers, failed \in BOOLEAN :
          LET r == SelectUser(users, id, failed) IN
          /\ arg' = [arg EXCEPT ![w] = [NoArg EXCEPT !.op = "GetUserByID", !.layer = layer,
                                        !.id = id]]
          /\ ret' = [ret EXCEPT ![w] = IF layer = "service"
                                        THEN PassOn(r, ErrNotFound) ELSE r]
    /\ UNCHANGED <<orders, items, clock, cur, got, tx, ts, users, changes>>

\* ------------------------- GET /orders/{id} on the sqlx order repository
\* sqlx GetContext: a statement with the given number of placeholders run with
\* args, the first of which is the id looked for
GetContext(tbl, placeholders, args, failed) ==
    IF failed THEN [order |-> NilOrder, err |-> ErrStorage]
    ELSE IF Len(args) # placeholders THEN [order |-> NilOrder, err |-> ErrBindParameters]
    ELSE IF args[1] \notin DOMAIN tbl THEN [order |-> NilOrder, err |-> ErrNoRows]
    ELSE [order |-> tbl[args[1]], err |-> ErrNone]

\* PostgresOrderRepository.GetByID: `SELECT * FROM orders WHERE id = $1` is run
\* with no argument after the query
SelectByID(tbl, id, failed) ==
    LET r == GetContext(tbl, 1, << >>, failed) IN
    IF r.err = ErrNoRows THEN [order |-> NilOrder, err |-> ErrOrderWithIdNotFound]
    ELSE IF r.err # ErrNone THEN [order |-> NilOrder, err |-> ErrGetByID]
    ELSE r

\* the answer of OrderHandler.GetOrderByID to the result of the service
GetOrderByIDResponse(order, err) ==
    IF err # ErrNone THEN StatusInternalServerError
    ELSE IF order = NilOrder THEN StatusNotFound
    ELSE StatusOK

\* OrderHandler.GetOrderByID up to the call of the service; Nil stands for the
\* empty id of the route
HandlerGetOrderByID(w) ==
    /\ pc[w] = "idle"
    /\ \E id \in CallerIds \cup {Nil} :
          /\ arg' = [arg EXCEPT ![w] = [NoArg EXCEPT !.op = "GetOrderByID", !.layer = "handler",
                                        !.id = id]]
          /\ IF id = Nil
             THEN /\ pc' = [pc EXCEPT ![w] = "done"]
                  /\ ret' = [ret EXCEPT ![w] = [NoRet EXCEPT !.code = StatusBadRequest]]
             ELSE /\ pc' = [pc EXCEPT ![w] = "get_by_id"]
                  /\ ret' = ret
    /\ UNCHANGED <<users, changes, orders, items, clock, cur, got, tx, ts>>

\* orderService.GetOrderByID, which is s.repo.GetByID, and the handler's answer
GetByID(w) ==
    /\ pc[w] = "get_by_id"
    /\ pc' = [pc EXCEPT ![w] = "done"]
    /\ \E failed \in BOOLEAN :
          LET r == SelectByID(orders, arg[w].id, failed) IN
          ret' = [ret EXCEPT ![w] = [NoRet EXCEPT !.err = r.err, !.order = r.order,
                                        !.code = GetOrderByIDResponse(r.order, r.err)]]
    /\ UNCHANGED <<users, changes, orders, items, clock, arg, cur, got, tx, ts>>

\* -------------------------------------------------------- specifications
\* the status machine of one order under concurrent requests: a status update
\* reads and writes the row of one id only, so one order is created and
\* the workers race on it
NoOrderYet == DOMAIN orders = {} /\ Creating = {}

Next ==
    \/ \E w \in Workers : NoOrderYet /\ SvcCreateOrder(w)
    \/ \E w \in Workers : InsertOrder(w)
    \/ \E w \in Workers : InsertItem(w)
    \/ \E w \in Workers : Commit(w)
    \/ \E w \in Workers : SvcUpdateOrderStatus(w)
    \/ \E w \in Workers : QueryOrderRow(w)
    \/ \E w \in Workers : QueryOrderItems(w)
    \/ \E w \in Workers : CheckStatus(w)
    \/ \E w \in Workers : ExecUpdate(w)
    \/ \E w \in Workers : Return(w)

Spec == Init /\ [][Next]_vars

\* a reader running concurrently with a writer: one worker creates orders
\* while another one reads (reads do not affect one another)
NoOtherReader(w) ==
    \A v \in Workers \ {w} : arg[v].op \notin {"GetOrderByID", "GetOrdersByUserID"}

NoOtherCreator(w) ==
    \A v \in Workers \ {w} : arg[v].op # "CreateOrder"

ReadNext ==
    \/ \E w \in Workers : NoOtherCreator(w) /\ SvcCreateOrder(w)
    \/ \E w \in Workers : InsertOrder(w)
    \/ \E w \in Workers : InsertItem(w)
    \/ \E w \in Workers : Commit(w)
    \/ \E w \in Workers : NoOtherReader(w) /\ SvcGetOrderByID(w)
    \/ \E w \in Workers : QueryOrderRow(w)
    \/ \E w \in Workers : QueryOrderItems(w)
    \/ \E w \in Workers : NoOtherReader(w) /\ SvcGetOrdersByUserID(w)
    \/ \E w \in Workers : QueryUserOrders(w)
    \/ \E w \in Workers : QueryUserOrderItems(w)
    \/ \E w \in Workers : Return(w)

ReadSpec == Init /\ [][ReadNext]_vars

\* the calls on one order executed one after another, through the service
\* and straight at the repository: a worker moves only while all others are
\* idle
Alone(w) == \A v \in Workers \ {w} : pc[v] = "idle"

SeqNext ==
    \/ \E w \in Workers : Alone(w) /\ NoOrderYet /\ SvcCreateOrder(w)
    \/ \E w \in Workers : Alone(w) /\ NoOrderYet /\ RepoCreateOrder(w)
    \/ \E w \in Workers : Alone(w) /\ InsertOrder(w)
    \/ \E w \in Workers : Alone(w) /\ InsertItem(w)
    \/ \E w \in Workers : Alone(w) /\ Commit(w)
    \/ \E w \in Workers : Alone(w) /\ SvcUpdateOrderStatus(w)
    \/ \E w \in Workers : Alone(w) /\ QueryOrderRow(w)
    \/ \E w \in Workers : Alone(w) /\ QueryOrderItems(w)
    \/ \E w \in Workers : Alone(w) /\ CheckStatus(w)
    \/ \E w \in Workers : Alone(w) /\ ExecUpdate(w)
    \/ \E w \in Workers : Alone(w) /\ RepoUpdateOrderStatus(w)
    \/ \E w \in Workers : Alone(w) /\ SvcGetOrderByID(w)
    \/ \E w \in Workers : Alone(w) /\ SvcGetOrdersByUserID(w)
    \/ \E w \in Workers : Alone(w) /\ QueryUserOrders(w)
    \/ \E w \in Workers : Alone(w) /\ QueryUserOrderItems(w)
    \/ \E w \in Workers : Alone(w) /\ Return(w)
    \/ Tick

SeqSpec == Init /\ [][SeqNext]_vars

\* the lifetime of one order behind the service: it is created, and then
\* UpdateOrderStatus calls follow one another, each change of the stored
\* status counted
LifeNext ==
    \/ \E w \in Workers : Alone(w) /\ NoOrderYet /\ SvcCreateOrder(w)
    \/ \E w \in Workers : Alone(w) /\ InsertOrder(w)
    \/ \E w \in Workers : Alone(w) /\ InsertItem(w)
    \/ \E w \in Workers : Alone(w) /\ Commit(w)
    \/ \E w \in Workers : Alone(w) /\ SvcUpdateOrderStatus(w)
    \/ \E w \in Workers : Alone(w) /\ QueryOrderRow(w)
    \/ \E w \in Workers : Alone(w) /\ QueryOrderItems(w)
    \/ \E w \in Workers : Alone(w) /\ CheckStatus(w)
    \/ \E w \in Workers : Alone(w) /\ CountedExecUpdate(w)
    \/ \E w \in Workers : Alone(w) /\ Return(w)

LifeSpec == Init /\ [][LifeNext]_vars

\* the repository called on its own, as its tests do
RepoNext ==
    \/ \E w \in Workers : RepoCreateOrder(w)
    \/ \E w \in Workers : InsertOrder(w)
    \/ \E w \in Workers : InsertItem(w)
    \/ \E w \in Workers : Commit(w)
    \/ \E w \in Workers : RepoUpdateOrderStatus(w)
    \/ \E w \in Workers : ExecUpdate(w)
    \/ \E w \in Workers : Return(w)
    \/ Tick

RepoSpec == Init /\ [][RepoNext]_vars

\* repository CreateOrder calls racing on the ids their callers chose
CreateNext ==
    \/ \E w \in Workers : RepoCreate(w, CallerIds)
    \/ \E w \in Workers : InsertOrder(w)
    \/ \E w \in Workers : InsertItem(w)
    \/ \E w \in Workers : Commit(w)
    \/ \E w \in Workers : Return(w)

CreateSpec == Init /\ [][CreateNext]_vars

\* requests to POST /orders of the id-checking service
HandlerNext ==
    \/ \E w \in Workers : HandlerCreateOrder(w)
    \/ \E w \in Workers : ExistsByID(w)
    \/ \E w \in Workers : Create(w)
    \/ \E w \in Workers : HandlerGetOrderByID(w)
    \/ \E w \in Workers : GetByID(w)
    \/ \E w \in Workers : Return(w)

HandlerSpec == Init /\ [][HandlerNext]_vars

\* the orders of the users listed between creations, one call after another,
\* while time passes
ListNext ==
    \/ \E w \in Workers : Alone(w) /\ SvcCreateOrder(w)
    \/ \E w \in Workers : Alone(w) /\ InsertOrder(w)
    \/ \E w \in Workers : Alone(w) /\ InsertItem(w)
    \/ \E w \in Workers : Alone(w) /\ Commit(w)
    \/ \E w \in Workers : Alone(w) /\ SvcGetOrdersByUserID(w)
    \/ \E w \in Workers : Alone(w) /\ QueryUserOrders(w)
    \/ \E w \in Workers : Alone(w) /\ QueryUserOrderItems(w)
    \/ \E w \in Workers : Alone(w) /\ Return(w)
    \/ Tick

ListSpec == Init /\ [][ListNext]_vars

\* the user service and the user store: every call of the store is one
\* statement and the service works on the call's own user value around it, so
\* the interleavings of concurrent calls are the sequences of their statements;
\* a result is taken by its caller before the next statement runs
UserNext ==
    \/ \E w \in Workers : Alone(w) /\ CreateUser(w)
    \/ \E w \in Workers : Alone(w) /\ UpdateUser(w)
    \/ \E w \in Workers : Alone(w) /\ DeleteUser(w)
    \/ \E w \in Workers : Alone(w) /\ GetUserByID(w)
    \/ \E w \in Workers : Alone(w) /\ Return(w)

UserSpec == Init /\ [][UserNext]_vars

\* ----------------------------------------------------------------- claims
\* the transition table of the specification, as pairs (from, to)
TableEdges ==
    { <<StatusNew, StatusProcessing>>, <<StatusNew, StatusCancelled>>,
      <<StatusProcessing, StatusPaid>>, <<StatusProcessing, StatusShipped>>,
      <<StatusProcessing, StatusCancelled>>,
      <<StatusPaid, StatusShipped>>, <<StatusPaid, StatusCancelled>>,
      <<StatusShipped, StatusDelivered>>, <<StatusShipped, StatusCancelled>> }

\* a finished service UpdateOrderStatus call that fetched its order
UpdateDone(w) ==
    /\ pc[w] = "done"
    /\ arg[w].op = "UpdateOrderStatus"
    /\ arg[w].layer = "service"
    /\ cur[w].id # Nil

\* C1: a single service UpdateOrderStatus call on an order with stored status
\* current (storage failures aside): it writes requested and succeeds iff
\* (current, requested) is an edge of the table, succeeds without writing iff
\* current = requested, and otherwise fails with the invalid-transition error
\* and leaves the stored row as it was.
C1_TransitionTable ==
    \A w \in Workers :
        (UpdateDone(w) /\ ret[w].err # ErrStorage) =>
            LET from == cur[w].status
                to == arg[w].status
                row == orders[arg[w].id]
                wrote == row # cur[w] /\ row.status = to
            IN  /\ (ret[w].err = ErrNone /\ wrote) <=> (<<from, to>> \in TableEdges)
                /\ (ret[w].err = ErrNone /\ row = cur[w]) <=> (from = to)
                /\ (from # to /\ <<from, to>> \notin TableEdges)
                      => (ret[w].err = ErrInvalidTransition /\ row = cur[w])

C1_Witness ==
    \E w \in Workers :
        /\ UpdateDone(w)
        /\ ret[w].err = ErrNone
        /\ cur[w].status = StatusShipped
        /\ arg[w].status = StatusDelivered
        /\ orders[arg[w].id].status = StatusDelivered

\* C2: every change of an order's stored status from s to t is an edge (s, t)
\* of the transition table, under any interleaving of UpdateOrderStatus calls.
C2_ForwardOnly ==
    [][\A id \in DOMAIN orders :
          orders'[id].status # orders[id].status
             => <<orders[id].status, orders'[id].status>> \in TableEdges]_vars

\* two finished calls on the same order that both fetched status from and
\* asked for s1 and s2, neither hit by a storage failure
RacedFrom(w1, w2, from, s1, s2) ==
    /\ w1 # w2
    /\ UpdateDone(w1) /\ UpdateDone(w2)
    /\ arg[w1].id = arg[w2].id
    /\ cur[w1].status = from /\ cur[w2].status = from
    /\ arg[w1].status = s1 /\ arg[w2].status = s2
    /\ ret[w1].err # ErrStorage /\ ret[w2].err # ErrStorage

\* C3 as stated: two concurrent calls that found the order in PROCESSING and
\* ask for DELIVERED and CANCELLED both return success.
C3_FromProcessing ==
    \A w1, w2 \in Workers :
        RacedFrom(w1, w2, StatusProcessing, StatusDelivered, StatusCancelled)
            => (ret[w1].err = ErrNone /\ ret[w2].err = ErrNone)

\* C3 amended: two concurrent calls that found the order in SHIPPED and ask
\* for DELIVERED and CANCELLED both return success, and every successful store
\* write sets the stored status to its own request whatever the stored status
\* is by then, so the later write overwrites the earlier one.
C3_FromShipped ==
    /\ [](\A w1, w2 \in Workers :
            RacedFrom(w1, w2, StatusShipped, StatusDelivered, StatusCancelled)
                => (ret[w1].err = ErrNone /\ ret[w2].err = ErrNone))
    /\ [][\A w \in Workers :
            (pc[w] = "upd_exec" /\ pc'[w] = "done" /\ ret'[w].err = ErrNone)
                => orders'[arg[w].id].status = arg[w].status]_vars

C3_Witness ==
    \E w1, w2 \in Workers :
        /\ RacedFrom(w1, w2, StatusShipped, StatusDelivered, StatusCancelled)
        /\ ret[w1].err = ErrNone /\ ret[w2].err = ErrNone
        /\ orders[arg[w1].id].status = StatusDelivered
        /\ orders[arg[w1].id].status # cur[w1].status

\* C4: no step takes an order's stored status from another status back to NEW,
\* and no call reaches the store update with NEW as the status to write.
C4_NeverBackToNew ==
    [][/\ \A id \in DOMAIN orders :
             orders[id].status # StatusNew => orders'[id].status # StatusNew
       /\ \A w \in Workers : pc'[w] = "upd_exec" => arg'[w].status # StatusNew]_vars

C4_Witness ==
    \E w \in Workers :
        /\ UpdateDone(w)
        /\ arg[w].status = StatusNew
        /\ cur[w].status = StatusProcessing
        /\ ret[w].err = ErrInvalidTransition
        /\ orders[arg[w].id].status # StatusNew

\* a finished CreateOrder call that went to the store and returned an error
CreateFailed(w) ==
    /\ pc[w] = "done"
    /\ arg[w].op = "CreateOrder"
    /\ arg[w].id # Nil
    /\ ret[w].err # ErrNone

\* C5: after a CreateOrder that failed at any step after the transaction began
\* no order row and no item row of its id is stored, and a GetOrderByID for
\* that id does not return an order.
C5_AllOrNothing ==
    \A w \in Workers :
        CreateFailed(w) =>
            /\ arg[w].id \notin DOMAIN orders
            /\ ItemsOf(items, arg[w].id) = {}
            /\ \A v \in Workers :
                  (pc[v] = "done" /\ arg[v].op = "GetOrderByID" /\ arg[v].id = arg[w].id)
                      => ret[v].err # ErrNone

\* the insert of the second item failed, after the order and the first item
C5_Witness ==
    \E w \in Workers :
        /\ CreateFailed(w)
        /\ ret[w].err = ErrStorage
        /\ Len(arg[w].input.items) = 2
        /\ arg[w].idx = 2
        /\ \E v \in Workers :
              /\ pc[v] = "done" /\ arg[v].op = "GetOrderByID" /\ arg[v].id = arg[w].id
              /\ ret[v].err = ErrOrderNotFound

\* C6: a GetOrderByID that returns an order returns it with all the items the
\* store holds for it, at least one, whatever CreateOrder does meanwhile.
C6_OrderWithAllItems ==
    \A w \in Workers :
        (pc[w] = "done" /\ arg[w].op = "GetOrderByID" /\ ret[w].err = ErrNone) =>
            /\ ret[w].order.id = arg[w].id
            /\ ret[w].items # {}
            /\ ret[w].items = ItemsOf(items, arg[w].id)
            /\ \A v \in Workers :
                  (arg[v].op = "CreateOrder" /\ arg[v].id = arg[w].id)
                      => Cardinality(ret[w].items) = Len(arg[v].input.items)

\* the read ran while the order was being created and found nothing
C6_Witness ==
    \E w, v \in Workers :
        /\ pc[w] = "done" /\ arg[w].op = "GetOrderByID" /\ ret[w].err = ErrOrderNotFound
        /\ pc[v] = "commit" /\ arg[v].id = arg[w].id
        /\ Cardinality(tx[v].items) = 2

\* the rows a finished GetOrdersByUserID returned
ListDone(w) ==
    /\ pc[w] = "done"
    /\ arg[w].op = "GetOrdersByUserID"
    /\ ret[w].err = ErrNone

\* C7 as stated: when the item query of GetOrdersByUserID runs after a write
\* that was committed since its order query, an order it returns lacks an item
\* the store holds for that order.
C7_ItemMissed ==
    [][\A w \in Workers :
          (/\ pc[w] = "list_items" /\ pc'[w] = "done" /\ ret'[w].err = ErrNone
           /\ \E id \in DOMAIN orders :
                 /\ orders[id].user_id = arg[w].user_id
                 /\ \A i \in 1..Len(got[w].rows) : got[w].rows[i].id # id)
          => \E i \in 1..Len(ret'[w].list) :
                ret'[w].list[i].items # ItemsOf(items', ret'[w].list[i].order.id)]_vars

\* C7 amended: GetOrdersByUserID is not a snapshot: an order committed between
\* its two queries is left out of the result as a whole; every order it does
\* return carries all the items the store holds for that order.
C7_ReturnedOrdersComplete ==
    \A w \in Workers :
        ListDone(w) =>
            \A i \in 1..Len(ret[w].list) :
                /\ ret[w].list[i].items # {}
                /\ ret[w].list[i].items = ItemsOf(items, ret[w].list[i].order.id)

C7_Witness ==
    \E w \in Workers :
        /\ ListDone(w)
        /\ Len(ret[w].list) = 1
        /\ \E id \in DOMAIN orders :
              /\ orders[id].user_id = arg[w].user_id
              /\ ret[w].list[1].order.id # id

\* C8: a service UpdateOrderStatus whose request equals the status it found
\* succeeds and leaves the stored row, status and updated_at, as it was.
C8_SameStatusNoOp ==
    \A w \in Workers :
        (UpdateDone(w) /\ cur[w].status = arg[w].status) =>
            /\ ret[w].err = ErrNone
            /\ orders[arg[w].id] = cur[w]

\* time has passed since the row was last written
C8_Witness ==
    \E w \in Workers :
        /\ UpdateDone(w)
        /\ cur[w].status = arg[w].status
        /\ ret[w].err = ErrNone
        /\ clock > orders[arg[w].id].updated_at

\* C9: a successful store UpdateOrderStatus with the status the order already
\* has leaves the order's updated_at as it was.
C9_SameStatusKeepsUpdatedAt ==
    [][\A w \in Workers :
          (/\ pc[w] = "upd_exec" /\ pc'[w] = "done" /\ arg[w].layer = "repo"
           /\ arg[w].id \in DOMAIN orders
           /\ orders[arg[w].id].status = arg[w].status
           /\ ret'[w].err = ErrNone)
          => orders'[arg[w].id].updated_at = orders[arg[w].id].updated_at]_vars

\* C10: an UpdateOrderStatus step for an id without a stored order, the fetch
\* of the service as well as the statement of the store, ends the call with
\* ErrOrderNotFound (or a storage failure) and changes no row; the service
\* does not go on to the store update.
C10_NotFound ==
    [][\A w \in Workers :
          (/\ arg[w].op = "UpdateOrderStatus"
           /\ pc[w] \in {"get_order", "upd_exec"} /\ pc'[w] # pc[w]
           /\ arg[w].id \notin DOMAIN orders)
          => /\ pc'[w] = "done"
             /\ ret'[w].err \in {ErrOrderNotFound, ErrStorage}
             /\ orders' = orders
             /\ items' = items]_vars

C10_Witness ==
    \E w \in Workers :
        /\ pc[w] = "done"
        /\ arg[w].op = "UpdateOrderStatus"
        /\ arg[w].layer = "service"
        /\ ret[w].err = ErrOrderNotFound
        /\ arg[w].id \notin DOMAIN orders
        /\ DOMAIN orders # {}

\* an input with an empty item list or with a bad item at some position
Rejectable(in) ==
    \/ Len(in.items) = 0
    \/ \E i \in 1..Len(in.items) :
          \/ in.items[i].quantity <= 0
          \/ in.items[i].price_per_unit < 0
          \/ in.items[i].product_id = Nil

\* C11: a service CreateOrder call whose input has no items, or an item at any
\* position with quantity <= 0, a negative price or a nil product id, ends
\* with a validation error in the step that takes it, without a call of the
\* store (no id assigned, no transaction) and without a change of a stored row.
C11_RejectsInvalidInput ==
    /\ [](\A w \in Workers :
            (arg[w].op = "CreateOrder" /\ arg[w].layer = "service"
               /\ Rejectable(arg[w].input))
            => /\ pc[w] = "done"
               /\ ret[w].err = ErrValidation
               /\ ret[w].order = NilOrder
               /\ arg[w].id = Nil
               /\ tx[w] = NoTx)
    /\ [][\A w \in Workers :
            (pc[w] = "idle" /\ arg'[w].op = "CreateOrder"
               /\ arg'[w].layer = "service" /\ Rejectable(arg'[w].input))
            => (orders' = orders /\ items' = items /\ tx' = tx)]_vars

\* the bad item is the second one, and the store holds an order already
C11_Witness ==
    \E w \in Workers :
        /\ pc[w] = "done"
        /\ arg[w].op = "CreateOrder" /\ arg[w].layer = "service"
        /\ ret[w].err = ErrValidation
        /\ Len(arg[w].input.items) = 2
        /\ arg[w].input.items[1].quantity > 0
        /\ arg[w].input.items[2].quantity <= 0
        /\ DOMAIN orders # {}

\* the decimal sum of quantity * price over the items, in cents
RECURSIVE SumCents(_, _)
SumCents(its, n) ==
    IF n = 0 THEN 0
    ELSE SumCents(its, n - 1) + its[n].quantity * its[n].price_per_unit

\* C12: for every order that service CreateOrder accepted, the total_amount
\* of the order object it hands to the store and returns to the caller is the
\* amount that the sum of quantity * price_per_unit over the items comes to,
\* whatever total_amount the caller supplied.
C12_TotalIsSum ==
    \A w \in Workers :
        (arg[w].op = "CreateOrder" /\ arg[w].layer = "service" /\ arg[w].id # Nil)
            => arg[w].input.total_amount
                  = Float64(SumCents(arg[w].input.items, Len(arg[w].input.items)))

\* C13: the commit of a service CreateOrder stores the order with status NEW
\* whatever status the input carried, and no step of a service operation
\* removes a stored order or changes a field of it other than status and
\* updated_at.
C13_CreatedNewThenStatusOnly ==
    [][/\ \A w \in Workers :
             (/\ pc[w] = "commit" /\ pc'[w] = "done"
              /\ arg[w].layer = "service" /\ ret'[w].err = ErrNone)
             => /\ arg[w].id \in DOMAIN orders' \ DOMAIN orders
                /\ orders'[arg[w].id].status = StatusNew
       /\ \A id \in DOMAIN orders :
             /\ id \in DOMAIN orders'
             /\ orders'[id] = [orders[id] EXCEPT !.status = orders'[id].status,
                                                 !.updated_at = orders'[id].updated_at]]_vars

\* the order of the caller who asked for PAID was stored as NEW and cancelled
\* later on
C13_Witness ==
    \E w \in Workers :
        /\ UpdateDone(w)
        /\ ret[w].err = ErrNone
        /\ cur[w].status = StatusNew
        /\ cur[w].user_id = 202
        /\ cur[w].total_amount = 30
        /\ orders[arg[w].id].updated_at > cur[w].updated_at
        /\ orders[arg[w].id] = [cur[w] EXCEPT !.status = StatusCancelled,
                                              !.updated_at = clock]

\* a finished service CreateOrder call that stored its order
CreatedByService(w) ==
    /\ pc[w] = "done"
    /\ arg[w].op = "CreateOrder"
    /\ arg[w].layer = "service"
    /\ ret[w].err = ErrNone

\* C14 as stated: the id under which an order is persisted is the id that came
\* with the caller's input; the store generates none.
C14_CallerSideId ==
    \A w \in Workers :
        CreatedByService(w) =>
            \E in \in OrderInputs :
                /\ in.user_id = arg[w].input.user_id
                /\ in.items = arg[w].input.items
                /\ in.id = arg[w].id

\* C14 amended: a service CreateOrder hands the order to the store without
\* an id, whatever id the input carried, and the store's CreateOrder
\* generates a fresh one before its INSERT; called directly with an id, the
\* store keeps that id. The order is persisted and returned under the id so
\* fixed.
C14_StoreGeneratesId ==
    [][\A w \in Workers :
          /\ (pc[w] = "idle" /\ arg'[w].op = "CreateOrder" /\ arg'[w].id # Nil)
                => IF arg'[w].layer = "service"
                   THEN /\ arg'[w].id = NewV4
                        /\ arg'[w].id \notin PresetIds \cup DOMAIN orders
                   ELSE arg'[w].id \in PresetIds
          /\ (pc[w] = "commit" /\ pc'[w] = "done" /\ ret'[w].err = ErrNone)
                => /\ DOMAIN orders' = DOMAIN orders \cup {arg[w].id}
                   /\ orders'[arg[w].id].id = arg[w].id
                   /\ ret'[w].id = arg[w].id]_vars

\* the input of user 202 carried the id 101; its order is stored under an id
\* of the store
C14_Witness ==
    \E w \in Workers :
        /\ CreatedByService(w)
        /\ arg[w].input.user_id = 202
        /\ arg[w].id \in DOMAIN orders
        /\ arg[w].id \notin PresetIds

\* C15: every stored order that service CreateOrder created has at least one
\* stored item, and no step adds an item to a stored order, removes one from
\* it or changes one.
C15_ItemsPresentAndFixed ==
    /\ [](\A id \in DOMAIN orders : ItemsOf(items, id) # {})
    /\ [][\A id \in DOMAIN orders : ItemsOf(items', id) = ItemsOf(items, id)]_vars

\* a second order was committed next to a stored order with two items
C15_Witness ==
    \E id1, id2 \in DOMAIN orders :
        /\ id1 # id2
        /\ Cardinality(ItemsOf(items, id1)) = 2
        /\ Cardinality(ItemsOf(items, id2)) = 1
        /\ orders[id1].created_at <= orders[id2].created_at
        /\ \E w \in Workers : CreatedByService(w) /\ arg[w].id = id2

\* a finished store CreateOrder call (made directly or by the service) that
\* returned an id without an error
StoreCreated(w) ==
    /\ pc[w] = "done"
    /\ arg[w].op = "CreateOrder"
    /\ ret[w].err = ErrNone
    /\ ret[w].id # Nil

\* a finished GetOrderByID call that returned the order id
GotOrder(v, id) ==
    /\ pc[v] = "done"
    /\ arg[v].op = "GetOrderByID"
    /\ arg[v].id = id
    /\ ret[v].err = ErrNone

\* the item rows a read returned are the items of the input, each with an
\* item id, the order's id and timestamps
SameItems(rows, in, id) ==
    /\ Cardinality(rows) = Len(in.items)
    /\ \A i \in 1..Len(in.items) :
          \E it \in rows :
              /\ it.product_id = in.items[i].product_id
              /\ it.quantity = in.items[i].quantity
              /\ Float64(it.price_per_unit) = Float64(in.items[i].price_per_unit)
    /\ \A it \in rows :
          /\ it.id # Nil
          /\ it.order_id = id
          /\ it.created_at > 0
          /\ it.updated_at > 0

\* C16: after a store CreateOrder that returned id, a GetOrderByID(id)
\* returns the user_id, status, total_amount and shipping address the store
\* was given and exactly the items it was given, each with a non-nil item id,
\* order_id = id and non-zero timestamps.
C16_CreateThenGet ==
    \A w, v \in Workers :
        (StoreCreated(w) /\ GotOrder(v, ret[w].id)) =>
            /\ ret[v].order.id = ret[w].id
            /\ ret[v].order.user_id = arg[w].input.user_id
            /\ ret[v].order.status = arg[w].input.status
            /\ Float64(ret[v].order.total_amount) = arg[w].input.total_amount
            /\ ret[v].order.shipping_address_text = arg[w].input.shipping_address_text
            /\ ret[v].order.created_at > 0
            /\ ret[v].order.updated_at > 0
            /\ SameItems(ret[v].items, arg[w].input, ret[w].id)

\* C17: a store CreateOrder whose id is already stored fails at its INSERT
\* and changes no stored row; a call that fails stores nothing; at most one
\* call per id succeeds and a call is turned down as a duplicate only when
\* its id is stored, so of two racing calls with one id exactly one succeeds
\* unless something else fails; the commit of the winner stores exactly its
\* own rows; a call waits only for a call with the same id.
C17_OneWinnerPerId ==
    /\ [](\A w1, w2 \in Workers :
            (w1 # w2 /\ StoreCreated(w1) /\ StoreCreated(w2)) => ret[w1].id # ret[w2].id)
    /\ [](\A w \in Workers :
            (pc[w] = "done" /\ arg[w].op = "CreateOrder" /\ ret[w].err = ErrUniqueViolation)
                => arg[w].id \in DOMAIN orders)
    /\ [](\A w \in Workers :
            (pc[w] = "ins_order" /\ ~ENABLED InsertOrder(w))
                => \E v \in Workers \ {w} : tx[v].order.id = arg[w].id)
    /\ [][\A w \in Workers :
            /\ (pc[w] = "ins_order" /\ pc'[w] # pc[w] /\ arg[w].id \in DOMAIN orders)
                  => /\ pc'[w] = "done"
                     /\ ret'[w].err \in {ErrUniqueViolation, ErrStorage, ErrPanic}
            /\ (arg[w].op = "CreateOrder" /\ pc[w] # "done" /\ pc'[w] = "done"
                   /\ ret'[w].err # ErrNone)
                  => (orders' = orders /\ items' = items)
            /\ (pc[w] = "commit" /\ pc'[w] = "done" /\ ret'[w].err = ErrNone)
                  => /\ arg[w].id \notin DOMAIN orders
                     /\ orders'[arg[w].id] = tx[w].order
                     /\ ItemsOf(items', arg[w].id) = tx[w].items
                     /\ \A id \in DOMAIN orders :
                           /\ orders'[id] = orders[id]
                           /\ ItemsOf(items', id) = ItemsOf(items, id)]_vars

\* two calls race on the id 101: one has written its rows, the other waits
\* with its INSERT; an order with another id is stored already
C17_Witness ==
    \E w1, w2 \in Workers :
        /\ pc[w1] = "commit" /\ tx[w1].order.id = 101 /\ Cardinality(tx[w1].items) = 2
        /\ pc[w2] = "ins_order" /\ arg[w2].id = 101
        /\ Len(arg[w2].input.items) = 1
        /\ 101 \notin DOMAIN orders
        /\ 102 \in DOMAIN orders

\* C18: a CreateOrder request of the id-checking service that ends while its
\* id is stored ends with ErrDuplicateOrderID and the answer 409, not 500, and
\* inserts nothing (failures of the storage aside), also when the id was
\* stored by another request after this one's existence check.
C18_DuplicateIs409 ==
    [][\A w \in Workers :
          (/\ arg[w].layer = "handler"
           /\ pc[w] \in {"exists", "create"} /\ pc'[w] = "done"
           /\ arg[w].id \in DOMAIN orders
           /\ ret'[w].err # ErrStorage)
          => /\ ret'[w].err = ErrDuplicateOrderID
             /\ ret'[w].code = StatusConflict
             /\ orders' = orders]_vars

\* a step that ends a GetOrderByID call of worker w
GetOrderByIDEnds(w) ==
    /\ arg[w].op = "GetOrderByID"
    /\ pc[w] \in {"get_order", "get_items"}
    /\ pc'[w] = "done"

\* C19: GetOrderByID for an id without a stored order row can always answer
\* with a nil order and ErrOrderNotFound, and answers so unless the store
\* fails; ErrOrderNotFound reaches the caller of the service as the error
\* itself, with no layer around it, and only for an id without a stored row;
\* every other failure of the store is returned with a nil order as a
\* different error inside layers of wrapping
C19_NotFoundUnwrapped ==
    /\ [](\A w \in Workers :
            (pc[w] = "get_order" /\ arg[w].op = "GetOrderByID"
                /\ arg[w].id \notin DOMAIN orders)
            => ENABLED (QueryOrderRow(w) /\ ret'[w] = [NoRet EXCEPT !.err = ErrOrderNotFound]))
    /\ [][\A w \in Workers : GetOrderByIDEnds(w) =>
            /\ (pc[w] = "get_order" /\ arg[w].id \notin DOMAIN orders)
                  => ret'[w].err \in {ErrOrderNotFound, ErrStorage}
            /\ ret'[w].err = ErrOrderNotFound
                  => /\ pc[w] = "get_order"
                     /\ arg[w].id \notin DOMAIN orders
                     /\ ret'[w] = [NoRet EXCEPT !.err = ErrOrderNotFound]
            /\ ret'[w].err \notin {ErrNone, ErrOrderNotFound}
                  => /\ ret'[w].err = ErrStorage
                     /\ ret'[w].wraps > 0
                     /\ ret'[w].order = NilOrder
                     /\ ret'[w].items = {}
            /\ ret'[w].err = ErrNone
                  => /\ ret'[w].order # NilOrder
                     /\ ret'[w].wraps = 0]_vars

\* a GetOrderByID call has answered ErrOrderNotFound for an id without a row
\* while another order is stored
C19_Witness ==
    \E w \in Workers :
        /\ pc[w] = "done"
        /\ arg[w].op = "GetOrderByID"
        /\ arg[w].id \notin DOMAIN orders
        /\ DOMAIN orders # {}
        /\ ret[w] = [NoRet EXCEPT !.err = ErrOrderNotFound]

\* the ids of the stored orders of user u
OrdersOfUser(u) == {id \in DOMAIN orders : orders[id].user_id = u}

\* C20: with no write running beside it, GetOrdersByUserID returns each stored
\* order of the user once and no other order, as the row the store holds, the
\* later created_at first, and each returned order carries exactly the stored
\* items whose order_id is its id.
C20_UserOrdersSortedWithOwnItems ==
    \A w \in Workers :
        ListDone(w) =>
            LET list == ret[w].list IN
            /\ Len(list) = Cardinality(OrdersOfUser(arg[w].user_id))
            /\ {list[i].order.id : i \in 1..Len(list)} = OrdersOfUser(arg[w].user_id)
            /\ \A i \in 1..Len(list) :
                  /\ list[i].order = orders[list[i].order.id]
                  /\ list[i].items = ItemsOf(items, list[i].order.id)
                  /\ \A it \in list[i].items : it.order_id = list[i].order.id
            /\ \A i, j \in 1..Len(list) :
                  i < j => list[i].order.created_at >= list[j].order.created_at

\* a user's two orders, created at different times, each with items of its
\* own, have been listed, the later one first
C20_Witness ==
    \E w \in Workers :
        /\ ListDone(w)
        /\ Len(ret[w].list) = 2
        /\ ret[w].list[1].order.created_at > ret[w].list[2].order.created_at
        /\ ret[w].list[1].items # {}
        /\ ret[w].list[2].items # {}
        /\ ret[w].list[1].items \cap ret[w].list[2].items = {}

\* C21: GetOrdersByUserID for a user without stored orders ends at its first
\* query; unless the store fails it answers with no error and a list that is
\* empty and not nil, and this answer is always possible; every list returned
\* without an error is not nil.
C21_NoOrdersEmptyList ==
    /\ [](\A w \in Workers :
            /\ (pc[w] = "list_orders" /\ OrdersOfUser(arg[w].user_id) = {})
                  => ENABLED (QueryUserOrders(w) /\ ret'[w].err = ErrNone)
            /\ ListDone(w) => ~ret[w].list_nil)
    /\ [][\A w \in Workers :
            (pc[w] = "list_orders" /\ pc'[w] # "list_orders"
                /\ OrdersOfUser(arg[w].user_id) = {})
            => /\ pc'[w] = "done"
               /\ ret'[w].err \in {ErrNone, ErrStorage}
               /\ ret'[w].err = ErrNone
                     => /\ ret'[w].list = << >>
                        /\ ~ret'[w].list_nil]_vars

\* the orders of a user without orders have been listed while the other user
\* has an order
C21_Witness ==
    \E w \in Workers :
        /\ ListDone(w)
        /\ OrdersOfUser(arg[w].user_id) = {}
        /\ DOMAIN orders # {}
        /\ ret[w].list = << >>
        /\ ~ret[w].list_nil

\* C22: a GET /orders/{id} of the handler on the sqlx repository, for an id
\* without a stored order, can be answered with 404 Not Found.
C22_AbsentIs404 ==
    \A w \in Workers :
        (pc[w] = "get_by_id" /\ arg[w].id \notin DOMAIN orders)
        => ENABLED (GetByID(w) /\ ret'[w].code = StatusNotFound)

\* a step in which worker w makes the call op of the user service or store
UserCall(w, op) ==
    /\ pc[w] = "idle"
    /\ pc'[w] = "done"
    /\ arg'[w].op = op

\* the call of the step reaches the store: the service has not turned it down
ReachesStore(w) == ret'[w].err # ErrPasswordEmpty

\* C23: no two stored users ever have the same email; a Create with a stored
\* email, and an Update of a stored user to an email another user holds, leave
\* the users table as it was and return ErrEmailExists itself (or, when the
\* statement fails for another reason, a wrapped error of the store).
C23_UniqueEmail ==
    /\ [](\A a, b \in DOMAIN users : a # b => users[a].email # users[b].email)
    /\ [][\A w \in Workers :
            /\ (UserCall(w, "CreateUser") /\ ReachesStore(w)
                  /\ \E o \in DOMAIN users : users[o].email = arg'[w].user.email)
               => /\ users' = users
                  /\ ret'[w].err \in {ErrEmailExists, ErrStorage}
                  /\ ret'[w].err = ErrEmailExists => ret'[w].wraps = 0
                  /\ ret'[w].id = Nil
            /\ (UserCall(w, "UpdateUser") /\ arg'[w].id \in DOMAIN users
                  /\ \E o \in DOMAIN users \ {arg'[w].id} :
                        users[o].email = arg'[w].user.email)
               => /\ users' = users
                  /\ ret'[w].err \in {ErrEmailExists, ErrStorage}
                  /\ ret'[w].err = ErrEmailExists => ret'[w].wraps = 0
            /\ (UserCall(w, "CreateUser") \/ UserCall(w, "UpdateUser"))
               => (ret'[w].err = ErrEmailExists
                     => \E o \in DOMAIN users : users[o].email = arg'[w].user.email
                                                   \/ o = arg'[w].id)]_vars

\* an Update of a stored user to the email of the other stored user has been
\* turned down
C23_Witness ==
    \E w \in Workers :
        /\ pc[w] = "done"
        /\ arg[w].op = "UpdateUser"
        /\ ret[w].err = ErrEmailExists
        /\ DOMAIN users = UserIds
        /\ users[arg[w].id].email # arg[w].user.email

\* C24: a successful UpdateUser of the service for a request without a
\* password (an empty PasswordHash) stores the first name, the last name and
\* the email of the request and leaves the stored password hash as it was.
C24_NoPasswordKeepsHash ==
    [][\A w \in Workers :
          (/\ UserCall(w, "UpdateUser")
           /\ arg'[w].layer = "service"
           /\ arg'[w].user.password_hash = ""
           /\ ret'[w].err = ErrNone)
          => /\ users'[arg'[w].id].first_name = arg'[w].user.first_name
             /\ users'[arg'[w].id].last_name = arg'[w].user.last_name
             /\ users'[arg'[w].id].email = arg'[w].user.email
             /\ users'[arg'[w].id].password_hash = users[arg'[w].id].password_hash]_vars

\* C25: an Update or a Delete of an id that is not stored changes nothing and
\* returns ErrNotFound: the error itself at the store, an error in whose chain
\* errors.Is finds it through the service (a failing statement aside, which
\* gives a wrapped store error); a successful Delete leaves no row of its id,
\* and a GetByID of an id without a row returns a nil user and ErrNotFound.
C25_UserNotFound ==
    [][\A w \in Workers :
          /\ ((UserCall(w, "UpdateUser") \/ UserCall(w, "DeleteUser"))
                /\ arg'[w].id \notin DOMAIN users)
             => /\ users' = users
                /\ ret'[w].err \in {ErrNotFound, ErrStorage}
                /\ (ret'[w].err = ErrNotFound /\ arg'[w].layer = "repo") => ret'[w].wraps = 0
                /\ ret'[w].err = ErrStorage => ret'[w].wraps > 0
          /\ (UserCall(w, "DeleteUser") /\ ret'[w].err = ErrNone)
             => /\ arg'[w].id \in DOMAIN users
                /\ arg'[w].id \notin DOMAIN users'
                /\ \A o \in DOMAIN users \ {arg'[w].id} :
                      o \in DOMAIN users' /\ users'[o] = users[o]
          /\ (UserCall(w, "GetUserByID") /\ arg'[w].id \notin DOMAIN users)
             => /\ ret'[w].err \in {ErrNotFound, ErrStorage}
                /\ ret'[w].user = NoUser
                /\ ret'[w].err = ErrNotFound => ret'[w].wraps = 0
          /\ (UserCall(w, "GetUserByID") /\ arg'[w].id \in DOMAIN users)
             => ret'[w].err # ErrNotFound]_vars

\* the service has answered an UpdateUser of an id that is not stored, while
\* another user is stored, with ErrNotFound inside its own error
C25_Witness ==
    \E w \in Workers :
        /\ pc[w] = "done"
        /\ arg[w].op = "UpdateUser"
        /\ arg[w].layer = "service"
        /\ arg[w].id \notin DOMAIN users
        /\ DOMAIN users # {}
        /\ ret[w].err = ErrNotFound
        /\ ret[w].wraps = 1

\* a step in which the UPDATE of worker w's store UpdateOrderStatus succeeds
StoreUpdateSucceeds(w) ==
    /\ pc[w] = "upd_exec"
    /\ pc'[w] = "done"
    /\ ret'[w].err = ErrNone

\* C26: a successful store UpdateOrderStatus sets the status of its order to
\* the requested one, makes its updated_at strictly later than it was, and
\* leaves the other columns of the row, the other orders and all items as
\* they were.
C26_StatusAndLaterUpdatedAtOnly ==
    [][\A w \in Workers :
          StoreUpdateSucceeds(w) =>
             LET id == arg[w].id IN
             /\ DOMAIN orders' = DOMAIN orders
             /\ orders'[id].status = arg[w].status
             /\ orders'[id].updated_at > orders[id].updated_at
             /\ orders'[id] = [orders[id] EXCEPT !.status = orders'[id].status,
                                                 !.updated_at = orders'[id].updated_at]
             /\ \A o \in DOMAIN orders \ {id} : orders'[o] = orders[o]
             /\ items' = items]_vars

\* C27: the updated_at of every stored order is at or after its created_at,
\* and no step of concurrent UpdateOrderStatus calls makes the stored
\* updated_at of an order earlier than it was.
C27_UpdatedAtMonotonic ==
    /\ [](\A id \in DOMAIN orders : orders[id].updated_at >= orders[id].created_at)
    /\ [][\A id \in DOMAIN orders :
            id \in DOMAIN orders' => orders'[id].updated_at >= orders[id].updated_at]_vars

\* C28: a store CreateOrder that has returned an error, whichever step failed,
\* has returned the nil id with it.
C28_ErrorReturnsNilId ==
    \A w \in Workers :
        (/\ pc[w] = "done"
         /\ arg[w].op = "CreateOrder"
         /\ arg[w].layer = "repo"
         /\ ret[w].err \notin {ErrNone, ErrPanic})
        => ret[w].id = Nil

\* C29: every stored item row refers to a stored order and no item id is
\* stored twice; item rows become visible only in the commit of a CreateOrder,
\* together with the order row of that call and carrying its id, and are never
\* removed or changed; a CreateOrder that fails, whatever other calls run
\* beside it, stores no item.
C29_ItemsOwnedByTheirOrder ==
    /\ [](/\ \A it \in items : it.order_id \in DOMAIN orders
          /\ \A a, b \in items : a.id = b.id => a = b)
    /\ [][/\ items \subseteq items'
          /\ items' # items =>
               \E w \in Workers :
                  /\ pc[w] = "commit" /\ pc'[w] = "done"
                  /\ ret'[w].err = ErrNone
                  /\ items' \ items = tx[w].items
                  /\ \A it \in tx[w].items : it.order_id = arg[w].id
                  /\ arg[w].id \notin DOMAIN orders
                  /\ arg[w].id \in DOMAIN orders'
                  /\ ItemsOf(items, arg[w].id) = {}]_vars

\* two orders are stored, each with items of its own, and a CreateOrder call
\* for one of their ids has failed
C29_Witness ==
    /\ Cardinality(DOMAIN orders) = 2
    /\ \A id \in DOMAIN orders : ItemsOf(items, id) # {}
    /\ \E w \in Workers :
          /\ pc[w] = "done"
          /\ arg[w].op = "CreateOrder"
          /\ ret[w].err # ErrNone

TerminalStatuses == {StatusDelivered, StatusCancelled}

\* C30: with the UpdateOrderStatus calls of the service on an order executed
\* one after another, the stored status of the order changes at most 4 times;
\* a call that finds the order DELIVERED or CANCELLED and asks for another
\* status ends with the invalid-transition error and the row as it found it,
\* and no step changes the row or the items of an order whose stored status
\* is DELIVERED or CANCELLED.
C30_AtMostFourChanges ==
    /\ [](/\ \A id \in DOMAIN orders : Changes(id) <= 4
          /\ \A w \in Workers :
                (/\ UpdateDone(w)
                 /\ cur[w].status \in TerminalStatuses
                 /\ arg[w].status # cur[w].status)
                    => /\ ret[w].err = ErrInvalidTransition
                       /\ orders[arg[w].id] = cur[w])
    /\ [][\A id \in DOMAIN orders :
             orders[id].status \in TerminalStatuses
                => /\ orders'[id] = orders[id]
                   /\ ItemsOf(items', id) = ItemsOf(items, id)]_vars

\* the longest path has been walked, and a call on the delivered order was
\* rejected
C30_Witness ==
    \E w \in Workers :
        /\ UpdateDone(w)
        /\ cur[w].status = StatusDelivered
        /\ arg[w].status = StatusCancelled
        /\ ret[w].err = ErrInvalidTransition
        /\ Changes(arg[w].id) = 4
        /\ orders[arg[w].id].status = StatusDelivered
====
